---- MODULE Spec2Model ----
(***************************************************************************)
(* Model of LayerNet/theano_port/FrankeNet.py: the HiddenLayer constructor, *)
(* the SS_DEV_NET constructor with its raw chain, dropout clones and DAE   *)
(* layers, the dev_cost loss composition and the _dev_loss regularizer.    *)
(*                                                                         *)
(* Conventions.                                                            *)
(*  - Python lists are TLA+ sequences: code index j is position j+1 here.  *)
(*  - A Theano variable is a record [param, T, num, den]: the shared       *)
(*    variable `param` (its identity), transposed or not, times num/den.   *)
(*  - Rates and probabilities are in percent (0.2 is 20, 0.01 is 1).       *)
(*  - Loss coefficients are in millionths (1.0 is 1000000, 1e-5 is 10).    *)
(*  - A symbolic loss is a sequence of terms [coef, atom], read as a sum.  *)
(***************************************************************************)
EXTENDS Integers, Sequences, FiniteSets, TLC

\* ---- bounds of the model ------------------------------------------------
MaxL == 2
MaxK == 2
MaxRows == 2

\* ---- program constants --------------------------------------------------
DropThreshold == 1
FirstDropRate == 20
LaterDropRate == 50
DaeDropRate == 50
NzLvl == 25
DevLamThreshold == 10
Half == 500000
One == 1000000

VARIABLES args, net, store, last, X1, X2, Y, dev_type, dev

vars == <<args, net, store, last, X1, X2, Y, dev_type, dev>>

\* ---- Theano variables ---------------------------------------------------
None == [param |-> 0, T |-> FALSE, num |-> 0, den |-> 1]

Shared(id) == [param |-> id, T |-> FALSE, num |-> 1, den |-> 1]

Transpose(v) == [v EXCEPT !.T = ~v.T]

Scale(n, d, v) == [v EXCEPT !.num = n * v.num, !.den = d * v.den]

\* ---- tensors of the graph -----------------------------------------------
\* chain 0 is the raw net, chain i+1 is clone i, -1/-2/-3 are the DAE
\* encoder, raw decoder and sde decoder built on raw layer `pos`.
NetInput == [of |-> "input", chain |-> 0, pos |-> 0, noise |-> "none", rate |-> 0]

NoTensor == [of |-> "none", chain |-> 0, pos |-> 0, noise |-> "none", rate |-> 0]

TensorOf(what, id) ==
    [of |-> what, chain |-> id.chain, pos |-> id.pos, noise |-> "none", rate |-> 0]

_drop_from_input(input, p) == [input EXCEPT !.noise = "dropout", !.rate = p]

_masking_noise(input, nz_lvl) == [input EXCEPT !.noise = "masking", !.rate = nz_lvl]

\* ---- HiddenLayer.__init__ -----------------------------------------------
\* id is the identity of the new object; nid is the number of shared
\* variables created so far, so a fresh one is nid + 1.
HiddenLayer(id, nid, input, n_in, n_out, activation, drop_rate, W, b, use_bias) ==
    LET W0   == IF W = None THEN Shared(nid + 1) ELSE W
        nid1 == IF W = None THEN nid + 1 ELSE nid
        b0   == IF b = None THEN Shared(nid1 + 1) ELSE b
        nid2 == IF b = None THEN nid1 + 1 ELSE nid1
        Weff == IF drop_rate < DropThreshold
                THEN W0
                ELSE Scale(100, 100 - drop_rate, W0)
    IN  [id            |-> id,
         input         |-> IF drop_rate < DropThreshold
                           THEN input
                           ELSE _drop_from_input(input, drop_rate),
         activation    |-> activation,
         in_dim        |-> n_in,
         out_dim       |-> n_out,
         W             |-> Weff,
         b             |-> b0,
         use_bias      |-> use_bias,
         linear_output |-> TensorOf("linear_output", id),
         output        |-> TensorOf("output", id),
         params        |-> IF use_bias THEN <<Weff, b0>> ELSE <<Weff>>,
         nid           |-> nid2]

\* ---- dict helpers --------------------------------------------------------
EmptyDict == [x \in {} |-> 0]

\* d[k] = v: the entry of k is added or overwritten.
Put(d, k, v) == (k :> v) @@ d

\* A list given by its elements, as a tuple.
List(f) == f \o <<>>

RECURSIVE Flatten(_)
Flatten(ss) == IF ss = <<>> THEN <<>> ELSE Head(ss) \o Flatten(Tail(ss))

RECURSIVE SumSeq(_)
SumSeq(s) == IF s = <<>> THEN 0 ELSE Head(s) + SumSeq(Tail(s))

\* ---- symbolic loss terms -------------------------------------------------
NoAtom == [kind |-> "none", chain |-> 0, n |-> 0, x1 |-> NoTensor, x2 |-> NoTensor,
           dev_type |-> -1]

\* MCL2HingeSS(layer).loss_func: the external classification loss of a layer.
MCL2HingeSS(layer) ==
    [kind |-> "class", chain |-> layer.id.chain, n |-> 1, x1 |-> layer.output,
     x2 |-> NoTensor, dev_type |-> -1]

\* lam_l2a * T.sum([lay.act_l2_sum for lay in layers])
ActRegLoss(layers) ==
    [kind |-> "act_l2", chain |-> layers[1].id.chain, n |-> Len(layers),
     x1 |-> NoTensor, x2 |-> NoTensor, dev_type |-> -1]

Term(c, a) == [coef |-> c, atom |-> a]

\* The coefficient a symbolic loss gives to an atom.
RECURSIVE Coef(_, _)
Coef(expr, a) ==
    IF expr = <<>> THEN 0
    ELSE (IF Head(expr).atom = a THEN Head(expr).coef ELSE 0) + Coef(Tail(expr), a)

Atoms(expr) == {expr[i].atom : i \in DOMAIN expr}

\* Two symbolic losses are the same function of their atoms.
SameLoss(e1, e2) == \A a \in Atoms(e1) \cup Atoms(e2) : Coef(e1, a) = Coef(e2, a)

\* ---- SS_DEV_NET.__init__ -------------------------------------------------
RequiredKeys == <<"layer_sizes", "lam_l2a", "use_bias", "dev_clones", "dev_types",
                  "dev_lams">>

AllKeys == {RequiredKeys[i] : i \in DOMAIN RequiredKeys} \cup {"dev_mix_rate"}

\* Source line of the lookup params[key].
KeyLine(k) ==
    CASE k = "layer_sizes" -> 104
      [] k = "lam_l2a"     -> 105
      [] k = "use_bias"    -> 106
      [] k = "dev_clones"  -> 107
      [] k = "dev_types"   -> 115
      [] k = "dev_lams"    -> 116
      [] OTHER             -> 120

\* The object before any attribute is set.
Blank ==
    [status |-> "new", failed_at |-> 0,
     dev_types |-> <<>>, dev_lams |-> <<>>, dev_lams_sum |-> 0, dev_mix_rate |-> 0,
     lam_l2a |-> 0, clip_params |-> EmptyDict,
     mlp_layers |-> <<>>, dev_clones |-> <<>>, mlp_params |-> <<>>, layer_count |-> 0,
     raw_dae_layers |-> <<>>, sde_dae_layers |-> <<>>, dae_params |-> <<>>, nid |-> 0,
     raw_class_loss |-> NoAtom, raw_reg_loss |-> NoAtom,
     sde_class_loss |-> NoAtom, sde_reg_loss |-> NoAtom]

\* Mutant: the default mix rate is 1.0 instead of 0.0.
MixRateDefaultOne(params) ==
    IF "dev_mix_rate" \in params.keys THEN params.dev_mix_rate ELSE One

\* Lines 119-122: a missing dev_mix_rate is caught and replaced by 0.0.
MixRateOf(params) ==
    IF "dev_mix_rate" \in params.keys THEN params.dev_mix_rate ELSE 0

\* Mutant: the clone layer gets no W and b and so creates copies of its own.
CloneLayerCopies(i, j, raw, input, n_in, n_out, use_bias) ==
    HiddenLayer([chain |-> i, pos |-> j], raw.nid, input, n_in, n_out, "sigmoid",
                IF j = 1 THEN FirstDropRate ELSE LaterDropRate,
                None, None, use_bias)

\* Mutant: first_layer is never looked at, every clone layer drops 0.5.
CloneLayerSameRate(i, j, raw, input, n_in, n_out, use_bias) ==
    HiddenLayer([chain |-> i, pos |-> j], raw.nid, input, n_in, n_out, "sigmoid",
                LaterDropRate, raw.W, raw.b, use_bias)

\* The clone layer that line 150 appends to clone i at position j.
CloneLayer(i, j, raw, input, n_in, n_out, use_bias) ==
    HiddenLayer([chain |-> i, pos |-> j], raw.nid, input, n_in, n_out, "sigmoid",
                IF j = 1 THEN FirstDropRate ELSE LaterDropRate,
                raw.W, raw.b, use_bias)

\* Mutant: the bias is registered as clippable too.
RegisterRawBiasClippable(clip_params, layer) ==
    Put(Put(clip_params, layer.W, 1), layer.b, 1)

\* Lines 144-145: the raw layer's weight is clippable, its bias is not.
RegisterRaw(clip_params, layer) == Put(Put(clip_params, layer.W, 1), layer.b, 0)

\* Line 276: the decoder's bias is not clippable.
RegisterDecoder(clip_params, raw_decoder) == Put(clip_params, raw_decoder.b, 0)

\* Lines 137-158: one iteration of the layer loop, on the state s before it.
LayerStep(params, j, s) ==
    LET n_in  == params.layer_sizes[j]
        n_out == params.layer_sizes[j + 1]
        next_raw_input == IF j = 1 THEN NetInput ELSE s.mlp_layers[j - 1].output
        raw   == HiddenLayer([chain |-> 0, pos |-> j], s.nid, next_raw_input,
                             n_in, n_out, "sigmoid", 0, None, None, params.use_bias)
        next_drop_input(i) ==
            IF j = 1 THEN NetInput ELSE s.dev_clones[i][j - 1].output
    IN  [s EXCEPT
           !.mlp_layers  = Append(s.mlp_layers, raw),
           !.clip_params = RegisterRaw(s.clip_params, raw),
           !.dev_clones  = List([i \in 1..params.dev_clones |->
                              Append(s.dev_clones[i],
                                     CloneLayer(i, j, raw, next_drop_input(i),
                                                n_in, n_out, params.use_bias))]),
           !.nid         = raw.nid]

\* Lines 124-158: the state after the first j iterations of the layer loop.
RECURSIVE LayerLoop(_, _)
LayerLoop(params, j) ==
    IF j = 0
    THEN [Blank EXCEPT !.dev_clones = List([i \in 1..params.dev_clones |-> <<>>])]
    ELSE LayerStep(params, j, LayerLoop(params, j - 1))

\* Lines 257-262: the encoder of the DAE on raw layer lay.
Encoder(i, nid, lay) ==
    HiddenLayer([chain |-> -1, pos |-> i], nid, _masking_noise(lay.input, NzLvl),
                lay.in_dim, lay.out_dim, "sigmoid", 0, lay.W, lay.b, TRUE)

\* Lines 264-269: the dropless decoder, with a bias of its own.
RawDecoder(i, encoder, lay) ==
    HiddenLayer([chain |-> -2, pos |-> i], encoder.nid, encoder.output,
                lay.out_dim, lay.in_dim, "sigmoid", 0, Transpose(lay.W), None, TRUE)

\* Mutant: the droppy decoder gets no bias and creates one of its own.
SdeDecoderOwnBias(i, encoder, raw_decoder, lay) ==
    HiddenLayer([chain |-> -3, pos |-> i], raw_decoder.nid, encoder.output,
                lay.out_dim, lay.in_dim, "sigmoid", DaeDropRate,
                Transpose(lay.W), None, TRUE)

\* Lines 270-275: the droppy decoder, on the raw decoder's bias.
SdeDecoder(i, encoder, raw_decoder, lay) ==
    HiddenLayer([chain |-> -3, pos |-> i], raw_decoder.nid, encoder.output,
                lay.out_dim, lay.in_dim, "sigmoid", DaeDropRate,
                Transpose(lay.W), raw_decoder.b, TRUE)

\* Lines 251-279: the DAE built on raw layer i, on the state s before it.
DaeStep(s, i) ==
    LET lay         == s.mlp_layers[i]
        encoder     == Encoder(i, s.nid, lay)
        raw_decoder == RawDecoder(i, encoder, lay)
        sde_decoder == SdeDecoder(i, encoder, raw_decoder, lay)
    IN  [s EXCEPT
           !.clip_params    = RegisterDecoder(s.clip_params, raw_decoder),
           !.raw_dae_layers = Append(s.raw_dae_layers, <<encoder, raw_decoder>>),
           !.sde_dae_layers = Append(s.sde_dae_layers, <<encoder, sde_decoder>>),
           !.dae_params     = Append(s.dae_params,
                                     <<encoder.W, encoder.b, raw_decoder.b>>),
           !.nid            = sde_decoder.nid]

\* Lines 247-279: the state after the DAEs of the first i hidden layers.
RECURSIVE _construct_dae_layers(_, _)
_construct_dae_layers(s0, i) ==
    IF i = 0
    THEN s0
    ELSE DaeStep(_construct_dae_layers(s0, i - 1), i)

Max(a, b) == IF a >= b THEN a ELSE b

\* Lines 115-122 and 160-162: the attributes set around the layer loop.
Listed(params, looped) ==
    [looped EXCEPT
       !.dev_types    = params.dev_types,
       !.dev_lams     = params.dev_lams,
       !.dev_lams_sum = SumSeq(params.dev_lams),
       !.dev_mix_rate = MixRateOf(params),
       !.lam_l2a      = params.lam_l2a,
       !.mlp_params   = Flatten([j \in DOMAIN looped.mlp_layers |->
                                    looped.mlp_layers[j].params]),
       !.layer_count  = Len(looped.mlp_layers)]

\* Lines 171-182: the loss attributes, on the state dae after line 167.
Losses(params, dae) ==
    LET L   == Len(params.layer_sizes) - 1
        raw == [dae EXCEPT
                  !.raw_class_loss = MCL2HingeSS(dae.mlp_layers[L]),
                  !.raw_reg_loss   = ActRegLoss(dae.mlp_layers)]
    IN  IF L = 0
        THEN [dae EXCEPT !.status = "failed", !.failed_at = 171]
        ELSE IF params.dev_clones = 0
        THEN [raw EXCEPT !.status = "failed", !.failed_at = 179]
        ELSE [raw EXCEPT
                !.status         = "ok",
                !.sde_class_loss = MCL2HingeSS(raw.dev_clones[1][L]),
                !.sde_reg_loss   = ActRegLoss(raw.dev_clones[1])]

\* The whole constructor: the object as it is when __init__ returns or raises.
__init__(params) ==
    LET missing == {i \in DOMAIN RequiredKeys : RequiredKeys[i] \notin params.keys}
        first   == RequiredKeys[CHOOSE i \in missing : \A k \in missing : i <= k]
        L       == Len(params.layer_sizes) - 1
    IN  IF missing # {}
        THEN [Blank EXCEPT
                !.status    = "failed",
                !.failed_at = KeyLine(first),
                !.dev_types = IF first = "dev_lams" THEN params.dev_types ELSE <<>>]
        ELSE Losses(params,
                    _construct_dae_layers(Listed(params, LayerLoop(params, L)),
                                          Max(L - 1, 0)))

\* Mutant: the last layer is compared on its outputs like the others.
DevAtomOutputs(self, i) ==
    [kind     |-> "dev", chain |-> 0, n |-> i,
     x1       |-> self.mlp_layers[i].output,
     x2       |-> self.dev_clones[1][i].output,
     dev_type |-> self.dev_types[i]]

\* _dev_loss(x1, x2, y, dev_type) of layer i, as a term of the graph.
DevAtom(self, i) ==
    LET last_layer == ~(i - 1 < self.layer_count - 1)
    IN  [kind     |-> "dev", chain |-> 0, n |-> i,
         x1       |-> IF last_layer THEN self.mlp_layers[i].linear_output
                                    ELSE self.mlp_layers[i].output,
         x2       |-> IF last_layer THEN self.dev_clones[1][i].linear_output
                                    ELSE self.dev_clones[1][i].output,
         dev_type |-> self.dev_types[i]]

\* Mutant: the DEV branch is taken whenever the weights sum to 0 or more.
UseDevAlways(self) == self.dev_lams_sum >= 0

\* Line 187: the DEV branch is taken when the DEV weights sum above 1e-5.
UseDev(self) == self.dev_lams_sum > DevLamThreshold

\* Mutant: the flag is ignored and the joint loss always returned.
JointAlways(joint_loss, class_loss, reg_loss) == class_loss \o reg_loss

\* Lines 205-208: the loss returned.
Joint(joint_loss, class_loss, reg_loss) ==
    IF joint_loss = 1 THEN class_loss \o reg_loss ELSE reg_loss

\* The label vector y is a symbolic input of every atom; the graph built is
\* the same for every y.  The record holds the locals at the return.
dev_cost(self, joint_loss) ==
    LET dmr  == self.dev_mix_rate
        deve == UseDev(self)
        class_loss ==
            IF deve
            THEN <<Term(dmr, self.raw_class_loss), Term(One - dmr, self.sde_class_loss)>>
            ELSE <<Term(One, self.raw_class_loss)>>
        dev_losses ==
            [i \in 1..self.layer_count |-> Term(self.dev_lams[i], DevAtom(self, i))]
        reg_loss ==
            IF deve
            THEN dev_losses \o <<Term(Half, self.raw_reg_loss), Term(Half, self.sde_reg_loss)>>
            ELSE <<Term(One, self.raw_reg_loss)>>
    IN  [joint_loss |-> joint_loss,
         dev_branch |-> deve,
         class_loss |-> class_loss,
         reg_loss   |-> reg_loss,
         L          |-> Joint(joint_loss, class_loss, reg_loss)]

\* Line 174: self.dev_reg_loss = lambda y: self.dev_cost(y, joint_loss=0)
dev_reg_loss(self) == dev_cost(self, 0)

NoCall == [op |-> "none", joint_loss |-> 0, dev_branch |-> FALSE, class_loss |-> <<>>,
           reg_loss |-> <<>>, L |-> <<>>]

Call(op, r) == [op |-> op, joint_loss |-> r.joint_loss, dev_branch |-> r.dev_branch,
                class_loss |-> r.class_loss, reg_loss |-> r.reg_loss, L |-> r.L]

\* ---- inputs ---------------------------------------------------------------
LayerSizes(L) == List([i \in 1..(L + 1) |-> MaxL + 3 - i])

DevTypes == 0..4

LamValues == {0, 5, One}

MixValues == {0, Half, One}

ParamValues == {0, 1}

Params(keys, L, K, use_bias, types, lams, mix) ==
    [keys |-> keys, layer_sizes |-> LayerSizes(L), lam_l2a |-> 1000,
     use_bias |-> use_bias, dev_clones |-> K, dev_types |-> types,
     dev_lams |-> lams, dev_mix_rate |-> mix]

\* ---- state machine --------------------------------------------------------
NoMatrix == <<>>

NoDev == [num |-> 0, den |-> -1]

IdleDev == X1 = NoMatrix /\ X2 = NoMatrix /\ Y = <<>> /\ dev_type = 0 /\ dev = NoDev

InitialValues(self) ==
    List([p \in 1..self.nid |->
            IF \E j \in DOMAIN self.mlp_layers : self.mlp_layers[j].W.param = p
            THEN 1 ELSE 0])

NoArgs == Params({}, 0, 0, FALSE, <<>>, <<>>, 0)

Init ==
    /\ args = NoArgs
    /\ net = Blank
    /\ store = <<>>
    /\ last = NoCall
    /\ IdleDev

\* SS_DEV_NET(rng, input, params), called once, on the object not yet built.
Construct(params) ==
    /\ args' = params
    /\ net' = __init__(params)
    /\ store' = InitialValues(net')
    /\ UNCHANGED <<last, X1, X2, Y, dev_type, dev>>

\* Constructions that vary the shape of the net and the keys present.
ConstructStruct ==
    /\ net.status = "new"
    /\ \E keys \in {AllKeys} \cup {AllKeys \ {k} : k \in AllKeys},
          L \in 0..MaxL, K \in 0..MaxK, ub \in BOOLEAN :
          Construct(Params(keys, L, K, ub, [i \in 1..L |-> 0], [i \in 1..L |-> One], Half))

\* Constructions that vary the DEV selectors, the DEV weights and the mix rate.
ConstructCost ==
    /\ net.status = "new"
    /\ \E L \in 1..MaxL :
          \E keys \in {AllKeys, AllKeys \ {"dev_mix_rate"}},
             types \in [1..L -> DevTypes], lams \in [1..L -> LamValues],
             mix \in MixValues :
             Construct(Params(keys, L, 1, TRUE, types, lams, mix))

\* The optimizer sets the value of a shared variable between evaluations.
SetParam ==
    /\ net.status = "ok"
    /\ \E p \in 1..net.nid, v \in ParamValues :
          /\ store[p] # v
          /\ store' = [store EXCEPT ![p] = v]
    /\ UNCHANGED <<args, net, last, X1, X2, Y, dev_type, dev>>

DevCost ==
    /\ net.status = "ok"
    /\ \E joint_loss \in {0, 1} : last' = Call("dev_cost", dev_cost(net, joint_loss))
    /\ UNCHANGED <<args, net, store, X1, X2, Y, dev_type, dev>>

DevRegLoss ==
    /\ net.status = "ok"
    /\ last' = Call("dev_reg_loss", dev_reg_loss(net))
    /\ UNCHANGED <<args, net, store, X1, X2, Y, dev_type, dev>>

Next == ConstructStruct \/ SetParam

Spec == Init /\ [][Next]_vars

NextCost == ConstructCost \/ DevCost \/ DevRegLoss

SpecCost == Init /\ [][NextCost]_vars

\* ---- SS_DEV_NET._dev_loss on concrete matrices ----------------------------
\* A matrix is a sequence of rows over Cols.  Entries are whole numbers on
\* input and thousandths after a transform; a loss is the fraction num/den
\* in millionths, and den = 0 is the undefined division.
Cols == 1..2

Values == {0, 1}

Labels == 0..2

Milli(x) == 1000 * x

\* T.tanh and T.nnet.sigmoid at the entries the model draws, in thousandths.
Tanh(x) == CASE x = 0 -> 0 [] x = 1 -> 762 [] x = -1 -> -762

Sigmoid(x) == CASE x = 0 -> 500 [] x = 1 -> 731 [] x = -1 -> 269

\* 1000 * ln(p / 1000) at the values sigmoid takes.
Log(p) == CASE p = 269 -> -1313 [] p = 500 -> -693 [] p = 731 -> -313

RECURSIVE SqrtIn(_, _, _)
SqrtIn(n, lo, hi) ==
    IF lo >= hi THEN lo
    ELSE LET mid == (lo + hi + 1) \div 2
         IN  IF mid * mid <= n THEN SqrtIn(n, mid, hi) ELSE SqrtIn(n, lo, mid - 1)

Sqrt(n) == SqrtIn(n, 0, 2000)

MapMilli(X) == [r \in DOMAIN X |-> [c \in Cols |-> Milli(X[r][c])]]

MapTanh(X) == [r \in DOMAIN X |-> [c \in Cols |-> Tanh(X[r][c])]]

MapSigmoid(X) == [r \in DOMAIN X |-> [c \in Cols |-> Sigmoid(X[r][c])]]

\* Lines 15-18: x / sqrt(sum(x**2, axis=1) + 1e-6), rows in thousandths.
row_normalize(x) ==
    [r \in DOMAIN x |->
        LET sq == SumSeq([c \in Cols |-> Milli(x[r][c]) * Milli(x[r][c])])
        IN  [c \in Cols |-> (1000 * Milli(x[r][c])) \div Sqrt(sq + 1)]]

\* Line 221: ss_mask = T.eq(Y, 0)
ss_mask(y) == [r \in DOMAIN y |-> IF y[r] = 0 THEN 1 ELSE 0]

\* Line 222: sum(((x1 - x2) * ss_mask)**2) / sum(ss_mask)
var_fun(x1, x2, mask) ==
    [num |-> SumSeq([r \in DOMAIN x1 |->
                SumSeq([c \in Cols |->
                    ((x1[r][c] - x2[r][c]) * mask[r]) * ((x1[r][c] - x2[r][c]) * mask[r])])]),
     den |-> SumSeq(mask)]

\* theano binary_crossentropy(output, target), thousandths in, millionths out.
binary_crossentropy(output, target) ==
    -(target * Log(output) + (1000 - target) * Log(1000 - output))

\* Lines 226-227: sum(binary_crossentropy(sigmoid(xo), sigmoid(xt))) / xt.shape[0]
cent_fun(xt, xo, mask) ==
    [num |-> SumSeq([r \in DOMAIN xt |->
                SumSeq([c \in Cols |->
                    binary_crossentropy(Sigmoid(xo[r][c]), Sigmoid(xt[r][c]))])]),
     den |-> Len(xt)]

\* Lines 211-238.
_dev_loss(x1, x2, y, dt) ==
    LET mask == ss_mask(y)
    IN  CASE dt = 1 -> var_fun(row_normalize(x1), row_normalize(x2), mask)
          [] dt = 2 -> var_fun(MapTanh(x1), MapTanh(x2), mask)
          [] dt = 3 -> var_fun(MapSigmoid(x1), MapSigmoid(x2), mask)
          [] dt = 4 -> cent_fun(x1, x2, mask)
          [] OTHER  -> var_fun(MapMilli(x1), MapMilli(x2), mask)

Matrices(n) == [1..n -> [Cols -> Values]]

InitDev ==
    /\ args = NoArgs
    /\ net = Blank
    /\ store = <<>>
    /\ last = NoCall
    /\ \E n \in 1..MaxRows :
          /\ X1 \in Matrices(n)
          /\ X2 \in Matrices(n)
          /\ Y \in [1..n -> Labels]
    /\ dev_type \in DevTypes
    /\ dev = NoDev

\* self._dev_loss(x1, x2, y, dev_type) on the current batch.
Evaluate ==
    /\ dev = NoDev
    /\ dev' = _dev_loss(X1, X2, Y, dev_type)
    /\ UNCHANGED <<args, net, store, last, X1, X2, Y, dev_type>>

\* The representations of one labeled row change (another weight, another
\* dropout mask) and the term is evaluated again.
ChangeLabeledRow ==
    /\ dev # NoDev
    /\ \E r \in DOMAIN Y, a \in [Cols -> Values], b \in [Cols -> Values] :
          /\ Y[r] # 0
          /\ X1' = [X1 EXCEPT ![r] = a]
          /\ X2' = [X2 EXCEPT ![r] = b]
    /\ dev' = _dev_loss(X1', X2', Y, dev_type)
    /\ UNCHANGED <<args, net, store, last, Y, dev_type>>

NextDev == Evaluate \/ ChangeLabeledRow

SpecDev == InitDev /\ [][NextDev]_vars

NumUnlabeled(y) == Cardinality({r \in DOMAIN y : y[r] = 0})

\* C3 (as claimed): for every DEV selector 0 to 4 the term _dev_loss returns is
\* normalized by the number of unlabeled rows, and changing the raw or clone
\* representation of a labeled row never changes the term.
C3_LabeledRowsContributeNothing ==
    [][/\ dev' # NoDev => dev'.den = NumUnlabeled(Y')
       /\ dev # NoDev => dev' = dev]_vars

\* The same statement for the selectors 0 to 3 only.
C3_HoldsForVarianceSelectors ==
    [][dev_type # 4 =>
         /\ dev' # NoDev => dev'.den = NumUnlabeled(Y')
         /\ dev # NoDev => dev' = dev]_vars

\* ---- properties of the constructed net (Spec) ------------------------------
\* The value a Theano variable has under the current shared values.
Eval(v) == [num |-> v.num * store[v.param], den |-> v.den, T |-> v.T]

\* Two Theano variables denote the same function of the same shared variable.
SameVar(a, b) ==
    a.param = b.param /\ a.T = b.T /\ a.num * b.den = b.num * a.den

IsShared(v) == v.param >= 1 /\ v = Shared(v.param)

L_of(params) == Len(params.layer_sizes) - 1

DropRateAt(j) == IF j = 1 THEN FirstDropRate ELSE LaterDropRate

\* C1: every clone layer is built on the weight and bias shared variables of
\* the raw layer at its position (the same objects, no copies), so that under
\* any later value of the raw weight the clone's effective weight is that
\* value, rescaled for the clone's dropout rate.
C1_ClonesShareParameters ==
    net.status = "ok" =>
        \A i \in 1..args.dev_clones, j \in 1..L_of(args) :
            LET c == net.dev_clones[i][j]
                r == net.mlp_layers[j]
            IN  /\ IsShared(r.W) /\ IsShared(r.b)
                /\ c.W.param = r.W.param
                /\ c.W.T = r.W.T
                /\ c.b = r.b
                /\ Eval(c.W).num * (100 - DropRateAt(j)) * Eval(r.W).den
                      = 100 * Eval(r.W).num * Eval(c.W).den

C1_Witness ==
    /\ net.status = "ok"
    /\ args.dev_clones >= 2
    /\ L_of(args) >= 2
    /\ store[net.mlp_layers[2].W.param] = 0
    /\ store[net.mlp_layers[1].W.param] = 1

RescaledTranspose(W) == Scale(100, 100 - DaeDropRate, Transpose(W))

DecoderClaim(rescaled) ==
    net.status = "ok" =>
        \A i \in 1..(L_of(args) - 1) :
            LET encoder     == net.raw_dae_layers[i][1]
                raw_decoder == net.raw_dae_layers[i][2]
                sde_decoder == net.sde_dae_layers[i][2]
                others      == {net.mlp_layers[j].W.param : j \in 1..L_of(args)}
                               \cup {net.mlp_layers[j].b.param : j \in 1..L_of(args)}
                               \cup {net.raw_dae_layers[k][2].b.param :
                                        k \in (1..(L_of(args) - 1)) \ {i}}
            IN  /\ net.sde_dae_layers[i][1] = encoder
                /\ encoder.W = net.mlp_layers[i].W
                /\ encoder.b = net.mlp_layers[i].b
                /\ SameVar(raw_decoder.W, Transpose(encoder.W))
                /\ SameVar(sde_decoder.W, IF rescaled THEN RescaledTranspose(encoder.W)
                                                     ELSE Transpose(encoder.W))
                /\ sde_decoder.input.noise = "dropout"
                /\ sde_decoder.input.rate = DaeDropRate
                /\ raw_decoder.input.noise = "none"
                /\ IsShared(raw_decoder.b)
                /\ sde_decoder.b = raw_decoder.b
                /\ raw_decoder.b.param \notin others
                /\ net.dae_params[i] = <<encoder.W, encoder.b, raw_decoder.b>>

\* C4 (as claimed): for every hidden layer both decoders have as their weight
\* the transpose of the encoder's weight, which is the raw layer's weight, and
\* they share the raw decoder's fresh bias, the DAE's only other parameter.
C4_BothDecodersUseTranspose == DecoderClaim(FALSE)

\* C4 (amended): the raw decoder's weight is the transpose of the encoder's
\* weight; the sde decoder's weight is that transpose times 1 / (1 - 0.5); the
\* two decoders share the raw decoder's fresh bias, and the DAE's parameters
\* are the encoder's weight and bias and that bias.
C4_SdeDecoderUsesRescaledTranspose == DecoderClaim(TRUE)

C4_Witness ==
    /\ net.status = "ok"
    /\ L_of(args) >= 2
    /\ Len(net.sde_dae_layers) = L_of(args) - 1
    /\ net.sde_dae_layers[1][2].W.T

\* C6: after construction clip_params holds exactly the raw weights, flagged
\* 1, and the raw biases and the decoder biases, flagged 0.
C6_ClipParams ==
    net.status = "ok" =>
        LET Ws  == {net.mlp_layers[j].W : j \in 1..L_of(args)}
            bs  == {net.mlp_layers[j].b : j \in 1..L_of(args)}
            dbs == {net.raw_dae_layers[i][2].b : i \in 1..(L_of(args) - 1)}
        IN  /\ DOMAIN net.clip_params = Ws \cup bs \cup dbs
            /\ Ws \cap (bs \cup dbs) = {}
            /\ \A w \in Ws : net.clip_params[w] = 1
            /\ \A b \in bs \cup dbs : net.clip_params[b] = 0

C6_Witness ==
    /\ net.status = "ok"
    /\ L_of(args) >= 2
    /\ Cardinality(DOMAIN net.clip_params) = 3 * L_of(args) - 1

NothingBuilt(self) ==
    /\ self.mlp_layers = <<>>
    /\ \A i \in DOMAIN self.dev_clones : self.dev_clones[i] = <<>>
    /\ self.raw_dae_layers = <<>>
    /\ self.sde_dae_layers = <<>>
    /\ self.nid = 0
    /\ self.clip_params = EmptyDict

\* C8 (as claimed): whenever construction fails, nothing has been built at
\* the point of failure: no raw, clone or DAE layer, no shared variable and
\* no clip_params entry.
C8_FailureBuildsNothing == net.status = "failed" => NothingBuilt(net)

\* The part of C8 that holds: a missing required key fails before anything
\* is built.
C8_MissingKeyBuildsNothing ==
    (net.status = "failed" /\ net.failed_at < 120) => NothingBuilt(net)

\* C9: the raw chain and every clone have L layers; raw layers are dropless;
\* clone layers drop 0.2 of their input at position 0 and 0.5 later; the
\* first layers all take the net's input and a later layer takes the output
\* of the layer before it in its own chain.
C9_ChainShape ==
    net.status = "ok" =>
        /\ Len(net.mlp_layers) = L_of(args)
        /\ net.layer_count = L_of(args)
        /\ Len(net.dev_clones) = args.dev_clones
        /\ \A j \in 1..L_of(args) :
              LET r == net.mlp_layers[j]
              IN  /\ r.input = IF j = 1 THEN NetInput ELSE net.mlp_layers[j - 1].output
                  /\ IsShared(r.W)
                  /\ r.output = TensorOf("output", [chain |-> 0, pos |-> j])
                  /\ r.in_dim = args.layer_sizes[j]
                  /\ r.out_dim = args.layer_sizes[j + 1]
        /\ \A i \in 1..args.dev_clones :
              /\ Len(net.dev_clones[i]) = L_of(args)
              /\ \A j \in 1..L_of(args) :
                    LET c == net.dev_clones[i][j]
                    IN  /\ c.input =
                              _drop_from_input(IF j = 1 THEN NetInput
                                               ELSE net.dev_clones[i][j - 1].output,
                                               IF j = 1 THEN 20 ELSE 50)
                        /\ c.output = TensorOf("output", [chain |-> i, pos |-> j])
                        /\ c.W.num * (IF j = 1 THEN 80 ELSE 50) = 100 * c.W.den

C9_Witness ==
    /\ net.status = "ok"
    /\ L_of(args) >= 2
    /\ args.dev_clones >= 2
    /\ net.dev_clones[2][2].input.rate = 50
    /\ net.dev_clones[2][1].input.rate = 20

\* ---- properties of dev_cost (SpecCost) --------------------------------------
RawClassLoss == MCL2HingeSS(net.mlp_layers[L_of(args)])

SdeClassLoss == MCL2HingeSS(net.dev_clones[1][L_of(args)])

RawRegLoss == ActRegLoss(net.mlp_layers)

SdeRegLoss == ActRegLoss(net.dev_clones[1])

AllLamsZero == \A i \in DOMAIN args.dev_lams : args.dev_lams[i] = 0

SomeLamPositive == \E i \in DOMAIN args.dev_lams : args.dev_lams[i] > 0

\* C2: with every dev_lams entry 0, dev_cost(labels, joint_loss=1) is
\* raw_class_loss + raw_reg_loss and holds no other term: no clone-0 loss, no
\* clone-0 regularization, no DEV term.
C2_ZeroLamsGiveRawLoss ==
    (last.op = "dev_cost" /\ last.joint_loss = 1 /\ AllLamsZero) =>
        /\ Atoms(last.L) = {RawClassLoss, RawRegLoss}
        /\ Coef(last.L, RawClassLoss) = One
        /\ Coef(last.L, RawRegLoss) = One

C2_Witness ==
    /\ last.op = "dev_cost"
    /\ last.joint_loss = 1
    /\ AllLamsZero
    /\ L_of(args) >= 2
    /\ net.dev_mix_rate = Half
    /\ args.dev_types[1] = 4

ClassAtoms(expr) == {a \in Atoms(expr) : a.kind = "class"}

\* C5: dev_cost returns classification loss + regularization loss when
\* joint_loss is 1 and the regularization loss alone otherwise, in both
\* branches; dev_reg_loss is dev_cost with joint_loss 0 and holds no
\* classification loss.
C5_JointLossFlag ==
    last.op # "none" =>
        /\ last.joint_loss = 1 =>
              /\ SameLoss(last.L, last.class_loss \o last.reg_loss)
              /\ Coef(last.L, RawClassLoss) + Coef(last.L, SdeClassLoss) = One
        /\ last.joint_loss # 1 =>
              /\ SameLoss(last.L, last.reg_loss)
              /\ ClassAtoms(last.L) = {}
        /\ ClassAtoms(last.reg_loss) = {}
        /\ last.op = "dev_reg_loss" => last.joint_loss = 0

C5_Witness ==
    /\ last.op = "dev_reg_loss"
    /\ last.dev_branch
    /\ last.L # <<>>
    /\ ClassAtoms(last.class_loss) # {}

MixRateClaim(dev_active) ==
    /\ (net.status # "new" /\ "dev_mix_rate" \notin args.keys) =>
          (net.status = "ok" /\ net.dev_mix_rate = 0)
    /\ (last.op = "dev_cost" /\ net.dev_mix_rate = 0 /\ dev_active) =>
          /\ SameLoss(last.class_loss, <<Term(One, SdeClassLoss)>>)
          /\ Coef(last.class_loss, RawClassLoss) = 0

C10_DevTerms ==
    LET L == L_of(args)
        what(i) == IF i < L THEN "output" ELSE "linear_output"
        term(i) ==
            [coef |-> args.dev_lams[i],
             atom |-> [kind |-> "dev", chain |-> 0, n |-> i,
                       x1 |-> TensorOf(what(i), [chain |-> 0, pos |-> i]),
                       x2 |-> TensorOf(what(i), [chain |-> 1, pos |-> i]),
                       dev_type |-> args.dev_types[i]]]
    IN  last.op # "none" =>
          /\ last.dev_branch <=> SumSeq(args.dev_lams) > 10
          /\ last.dev_branch =>
                /\ Len(last.reg_loss) = L + 2
                /\ \A i \in 1..L : last.reg_loss[i] = term(i)
                /\ last.reg_loss[L + 1] = [coef |-> 500000, atom |-> RawRegLoss]
                /\ last.reg_loss[L + 2] = [coef |-> 500000, atom |-> SdeRegLoss]
                /\ net.mlp_layers[L].linear_output
                      = TensorOf("linear_output", [chain |-> 0, pos |-> L])
                /\ net.dev_clones[1][L].linear_output
                      = TensorOf("linear_output", [chain |-> 1, pos |-> L])

C10_Witness ==
    /\ last.op = "dev_cost"
    /\ last.dev_branch
    /\ L_of(args) >= 2
    /\ args.dev_types = <<3, 4>> \o [i \in 1..(L_of(args) - 2) |-> 0]
    /\ args.dev_lams[1] = 0
    /\ args.dev_lams[2] = One

====
